---- MODULE Spec2Model ----
(***************************************************************************)
(* Model of the gRPC supervisor of oblivion-helper (type Server, the       *)
(* variant that owns Sing-Box as a child process): Start / Stop, the       *)
(* background exit-waiter monitorProcess, the status channel and the       *)
(* StreamStatus handlers.                                                  *)
(*                                                                         *)
(* s.mu is held by startSingBox, stopSingBox and by the reacting part of   *)
(* monitorProcess for their whole bodies, and none of them blocks while    *)
(* holding it, so each locked body is one atomic action.  What the code    *)
(* does outside the lock is a step of its own: the goroutine started by    *)
(* `go s.monitorProcess()` reads s.sbProcess when it is scheduled, blocks  *)
(* in Wait, and only then takes the lock; StreamStatus reads s.running     *)
(* before it calls stopSingBox.                                            *)
(*                                                                         *)
(* exec.Cmd objects live in numbered slots.  A slot is reused once its     *)
(* process is dead, nothing in the program refers to its Cmd any more and  *)
(* the goroutine its Start launched has returned (the Cmd is garbage).     *)
(***************************************************************************)
EXTENDS Integers, Sequences, FiniteSets, TLC

(* Bounds of the model. *)
\* number of exec.Cmd objects (with their exit-waiters) in use at one time
MaxProcs == 2
\* capacity of the status channel (statusChannelCap, 100 in the program)
ChanCap == 2
\* number of StreamStatus clients
MaxStreams == 2
\* number of exec.Cmd slots in use at one time while status streams are open
BusProcs == 1
\* number of Exit calls
MaxExits == 1
\* number of watchers of one dependency alive at one time
MaxWatchers == 2
\* number of modifications of the command file
MaxMods == 2

Procs   == 1..MaxProcs
Streams == 1..MaxStreams
Exits   == 1..MaxExits
Nil     == 0
Watchers == 1..MaxWatchers
Mods    == 1..MaxMods

\* The companion processes the helper can watch: Config.WpBin, Config.ObBin.
Deps == {"wp", "ob"}

\* The first line of the command file as a client may write it.
FileTexts == {"start", "Stop ", "exit", "bogus", ""}

(* What the file system and the OS answer to one Start call. *)
StartEnvs == {"ok", "cfgMissing", "cfgUnreadable", "cfgBadJson",
              "binMissing", "sbCfgMissing", "spawnFail"}

VARIABLES
    running,       \* Server.running
    sbProcess,     \* Server.sbProcess: Nil or the slot of an exec.Cmd
    cmd,           \* per slot: the state of the Cmd's OS process
    mon,           \* per slot: the monitorProcess goroutine its Start launched
    statusChange,  \* Server.statusChange, the buffered channel
    stream,        \* per client: its StreamStatus handler
    crashed,       \* the supervisor died of an unrecovered panic
    closed,        \* Server.statusChange has been closed
    main,          \* where startGRPCServer is; "exited": the supervisor process is gone
    exit,          \* per Exit call: its handler and the goroutine it starts
    singBoxProcess, \* SingBoxManager.singBoxProcess: Nil or the slot of an exec.Cmd
    grace,         \* SingBoxManager.stopSingBox waits in its select, holding m.mu
    goos,          \* runtime.GOOS of the build
    monitor,       \* per dependency: Config.MonitorWp, Config.MonitorOb
    dep,           \* per dependency: its process is there for isProcessRunning to find
    watch,         \* per dependency and slot: a monitorProcess goroutine of the helper
    fired,         \* per dependency: callbacks invoked since it last disappeared (history)
    file,          \* the command file: modification time (0: no file) and first line
    fw,            \* the watchCommandFile goroutine
    loop,          \* the command loop of the helper's main
    delivered,     \* per modification: how often its command was handed over (history)
    last           \* the step just taken: operation, input, reply, status broadcast (history)

vars == <<running, sbProcess, cmd, mon, statusChange, stream, crashed,
          closed, main, exit, singBoxProcess, grace, goos,
          monitor, dep, watch, fired, file, fw, loop, delivered, last>>

\* The command file and the two goroutines that pass its commands on.
commands == <<file, fw, loop, delivered>>

\* The state of the file-command helper (type SingBoxManager).
manager == <<singBoxProcess, grace, goos, monitor, dep, watch, fired, commands>>

\* What only the shutdown path and Exit write.
ending == <<closed, main, exit>>

\* err: the error of the handler's stopSingBox, "" for none.
ExitIdle == [pc |-> "idle", err |-> ""]

\* The supervisor process exists and runs its goroutines.
Up == ~crashed /\ main # "exited"

\* grpcServer still takes new calls: GracefulStop has not been called.
Accepting == main \notin {"draining", "exited"}

\* A status on the channel.
Event(status) == status

Step(op, arg, code, pub) == [op |-> op, arg |-> arg, code |-> code, pub |-> pub]

MonIdle == [pc |-> "none", h |-> Nil, err |-> FALSE]

MonDone == [pc |-> "done", h |-> Nil, err |-> FALSE]

\* owed (history): a Start succeeded while this stream was open, and the
\* stream has not sent a "started" to its client since.
\* sent (history): the status of the latest Send on this stream.
\* dup (history): some Send on this stream repeated the status sent before it.
StreamIdle == [pc |-> "idle", lastStatus |-> "", owed |-> FALSE,
               sent |-> "", dup |-> FALSE]

\* watchCommandFile between two ticks; lastModTime starts as the zero Time.
\* seen: the ModTime of its latest Stat; of (history): the modification whose
\* text its latest read returned.
FwIdle == [pc |-> "tick", seen |-> 0, lastModTime |-> 0, command |-> "", of |-> 0]

\* main blocked in `range commandChan`.
LoopIdle == [pc |-> "recv", command |-> ""]

Fresh ==
    /\ running = FALSE
    /\ sbProcess = Nil
    /\ cmd = [p \in Procs |-> "unborn"]
    /\ mon = [p \in Procs |-> MonIdle]
    /\ statusChange = <<>>
    /\ stream = [i \in Streams |-> StreamIdle]
    /\ crashed = FALSE
    /\ closed = FALSE
    /\ main = "serving"
    /\ exit = [e \in Exits |-> ExitIdle]
    /\ singBoxProcess = Nil
    /\ grace = FALSE
    /\ dep = [d \in Deps |-> TRUE]
    /\ watch = [d \in Deps |-> [k \in Watchers |-> "none"]]
    /\ fired = [d \in Deps |-> 0]
    /\ file = [mtime |-> 0, text |-> ""]
    /\ fw = FwIdle
    /\ loop = LoopIdle
    /\ delivered = [m \in Mods |-> 0]
    /\ last = Step("init", "-", "-", "")

\* Neither dependency is watched.
NoMonitor == [d \in Deps |-> FALSE]

\* The gRPC server; it has no branch on runtime.GOOS and no dependency.
Init == Fresh /\ goos = "linux" /\ monitor = NoMonitor

\* The program still holds a pointer to the Cmd in slot p: in s.sbProcess, or
\* in a monitorProcess blocked in Wait on it.
Referenced(p, sb, m) ==
    \/ sb = p
    \/ \E w \in Procs : m[w].pc = "waiting" /\ m[w].h = p

\* A dead process whose Cmd is no longer referenced can be neither waited for
\* nor signalled: "gone".
Unreachable(p, c, sb, m) == c[p] \notin {"unborn", "alive"} /\ ~Referenced(p, sb, m)

\* The slots after a step: unreachable Cmds are forgotten, and their slot is
\* free again when its goroutine has returned.
CollectCmd(c, sb, m) ==
    [p \in Procs |->
        IF Unreachable(p, c, sb, m)
        THEN IF m[p].pc \in {"none", "done"} THEN "unborn" ELSE "gone"
        ELSE c[p]]

CollectMon(c, sb, m) ==
    [p \in Procs |->
        IF Unreachable(p, c, sb, m) /\ m[p].pc \in {"none", "done"}
        THEN MonIdle ELSE m[p]]

FreeSlots == {p \in Procs : cmd[p] = "unborn"}

\* A send that always finds room.
broadcastStatus_Unbounded(ch, ev) == Append(ch, ev)

\* broadcastStatus: a non-blocking send; the update is dropped when the
\* channel is full.
broadcastStatus(ch, ev) == IF Len(ch) < ChanCap THEN Append(ch, ev) ELSE ch

\* `s.statusChange <- status` inside broadcastStatus: a send on a closed
\* channel panics, whatever the select around it.
send(status) ==
    IF closed
    THEN crashed' = TRUE /\ UNCHANGED statusChange
    ELSE statusChange' = broadcastStatus(statusChange, Event(status)) /\ UNCHANGED crashed

\* What the caller of broadcastStatus goes on to return.
afterSend(code) == IF closed THEN "panic" ELSE code

\* loadConfig: the gRPC code it returns for what it finds, "OK" for nil.
loadConfig(env) ==
    CASE env = "cfgMissing"    -> "NotFound"
      [] env = "cfgUnreadable" -> "Internal"
      [] env = "cfgBadJson"    -> "InvalidArgument"
      [] OTHER                 -> "OK"

statPaths_Unchecked(env) == "OK"

\* startSingBox, the two os.Stat checks before the spawn.
statPaths(env) ==
    IF env \in {"binMissing", "sbCfgMissing"} THEN "NotFound" ELSE "OK"

\* startSingBox, `s.sbProcess.Start()`: whether the OS starts the process.
spawns(env) == env = "ok"

AlreadyRunning_Never == FALSE

\* startSingBox, `if s.running`.
AlreadyRunning == running

\* startSingBox under s.mu.
startSingBox(env) ==
    /\ Up /\ Accepting
    /\ IF AlreadyRunning
       THEN /\ last' = Step("Start", env, "AlreadyExists", "")
            /\ UNCHANGED <<running, sbProcess, cmd, mon, statusChange, crashed>>
       ELSE IF loadConfig(env) # "OK"
       THEN /\ last' = Step("Start", env, loadConfig(env), "")
            /\ UNCHANGED <<running, sbProcess, cmd, mon, statusChange, crashed>>
       ELSE IF statPaths(env) # "OK"
       THEN /\ last' = Step("Start", env, statPaths(env), "")
            /\ UNCHANGED <<running, sbProcess, cmd, mon, statusChange, crashed>>
       ELSE /\ FreeSlots # {}
            /\ LET p == CHOOSE q \in FreeSlots : \A r \in FreeSlots : q <= r IN
               IF ~spawns(env)
               THEN \* s.sbProcess = exec.Command(...); Start() fails
                    /\ sbProcess' = p
                    /\ cmd' = CollectCmd([cmd EXCEPT ![p] = "failed"], p, mon)
                    /\ mon' = CollectMon([cmd EXCEPT ![p] = "failed"], p, mon)
                    /\ last' = Step("Start", env, "Internal", "")
                    /\ UNCHANGED <<running, statusChange, crashed>>
               ELSE LET c2 == [cmd EXCEPT ![p] = "alive"]
                        m2 == [mon EXCEPT ![p] = [pc |-> "launched", h |-> Nil, err |-> FALSE]]
                    IN  /\ sbProcess' = p
                        /\ cmd' = CollectCmd(c2, p, m2)
                        /\ mon' = CollectMon(c2, p, m2)
                        /\ running' = TRUE
                        /\ send("started")
                        /\ last' = Step("Start", env, afterSend("OK"), "started")
    /\ stream' = [i \in Streams |->
                     IF last'.code = "OK" /\ stream[i].pc = "open"
                     THEN [stream[i] EXCEPT !.owed = TRUE] ELSE stream[i]]
    /\ UNCHANGED ending
    /\ UNCHANGED manager

Start == \E env \in StartEnvs : startSingBox(env)

\* os.Process.Kill on a process in state st: "ok" for nil, "done" for an error
\* (os.ErrProcessDone, or the OS refusing to terminate an exited process).
\* A process that exited but was not yet waited for accepts the signal on
\* POSIX targets and refuses it on Windows.
Kill(st) ==
    CASE st = "alive"  -> {"ok"}
      [] st = "reaped" -> {"done"}
      [] OTHER         -> {"ok", "done"}

\* The process after a successful Process.Kill (SIGKILL / TerminateProcess).
Killed_Ignored(st) == st

Killed(st) == IF st = "alive" THEN "killed" ELSE st

\* A stop that looks at the handle instead of the flag.
NotRunning_ByHandle == sbProcess = Nil

\* stopSingBox, `if !s.running`.
NotRunning == ~running

\* stopSingBox under s.mu; code is the gRPC code it returns ("panic" when it
\* dereferences a nil pointer), pub the status it broadcasts.
stopSingBox(code, pub) ==
    IF NotRunning
    THEN /\ code = "FailedPrecondition"
         /\ pub = ""
         /\ UNCHANGED <<running, sbProcess, cmd, mon, statusChange, crashed>>
    ELSE IF sbProcess = Nil \/ cmd[sbProcess] \in {"unborn", "failed", "gone"}
    THEN \* s.sbProcess.Process.Kill() through a nil *exec.Cmd or a nil *os.Process
         /\ code = "panic"
         /\ pub = ""
         /\ crashed' = TRUE
         /\ UNCHANGED <<running, sbProcess, cmd, mon, statusChange>>
    ELSE \E k \in Kill(cmd[sbProcess]) :
            IF k = "ok"
            THEN LET c2 == [cmd EXCEPT ![sbProcess] = Killed(@)]
                 IN  /\ code = afterSend("OK")
                     /\ pub = "stopped"
                     /\ cmd' = CollectCmd(c2, Nil, mon)
                     /\ mon' = CollectMon(c2, Nil, mon)
                     /\ sbProcess' = Nil
                     /\ running' = FALSE
                     /\ send("stopped")
            ELSE /\ code = "Internal"
                 /\ pub = ""
                 /\ UNCHANGED <<running, sbProcess, cmd, mon, statusChange, crashed>>

StopCodes == {"OK", "FailedPrecondition", "Internal", "panic"}

\* The Stop RPC.
Stop ==
    /\ Up /\ Accepting
    /\ \E code \in StopCodes, pub \in {"", "stopped"} :
          /\ stopSingBox(code, pub)
          /\ last' = Step("Stop", "-", code, pub)
    /\ UNCHANGED <<stream, ending>>
    /\ UNCHANGED manager

\* The managed process exits on its own, with status 0 or with a failure.
ProcExit(p) ==
    /\ cmd[p] = "alive"
    /\ \E st \in {"exit0", "exitErr"} :
          LET c2 == [cmd EXCEPT ![p] = st]
          IN  /\ cmd' = CollectCmd(c2, sbProcess, mon)
              /\ mon' = CollectMon(c2, sbProcess, mon)
    /\ last' = Step("exit", "-", "-", "")
    /\ UNCHANGED <<running, sbProcess, statusChange, stream, crashed, ending>>
    /\ UNCHANGED manager

\* monitorProcess, first step: the goroutine is scheduled, reads s.sbProcess
\* (without the lock) and calls Wait on it.
monitorRead(w) ==
    /\ Up
    /\ mon[w].pc = "launched"
    /\ IF sbProcess = Nil
       THEN \* (*exec.Cmd)(nil).Wait(): nil pointer dereference
            /\ crashed' = TRUE
            /\ last' = Step("monitorProcess", "-", "panic", "")
            /\ UNCHANGED <<cmd, mon>>
       ELSE LET m2 == [mon EXCEPT ![w] = [pc |-> "waiting", h |-> sbProcess, err |-> FALSE]]
            IN  /\ mon' = CollectMon(cmd, sbProcess, m2)
                /\ cmd' = CollectCmd(cmd, sbProcess, m2)
                /\ last' = Step("monitorProcess", "-", "wait", "")
                /\ UNCHANGED crashed
    /\ UNCHANGED <<running, sbProcess, statusChange, stream, ending>>
    /\ UNCHANGED manager

\* The error of exec.Cmd.Wait on a process in state st: nil only for the first
\* Wait on a process that exited with status 0.
WaitErr(st) == st # "exit0"

\* monitorProcess, second step: Wait returns.
monitorWait(w) ==
    /\ Up
    /\ mon[w].pc = "waiting"
    /\ cmd[mon[w].h] # "alive"
    /\ LET h  == mon[w].h
           m2 == [mon EXCEPT ![w] = [pc |-> "returned", h |-> Nil,
                                     err |-> WaitErr(cmd[h])]]
           c2 == [cmd EXCEPT ![h] =
                     IF @ \in {"exit0", "exitErr", "killed"} THEN "reaped" ELSE @]
       IN  /\ mon' = CollectMon(c2, sbProcess, m2)
           /\ cmd' = CollectCmd(c2, sbProcess, m2)
    /\ last' = Step("monitorProcess", "-", "returned", "")
    /\ UNCHANGED <<running, sbProcess, statusChange, stream, crashed, ending>>
    /\ UNCHANGED manager

\* monitorProcess, `if err != nil && (s.running || s.sbProcess != nil)`.
Unexpected(err) == err /\ (running \/ sbProcess # Nil)

\* monitorProcess, last step, under s.mu.
monitorReact(w) ==
    /\ Up
    /\ mon[w].pc = "returned"
    /\ LET m2 == [mon EXCEPT ![w] = MonDone] IN
       IF Unexpected(mon[w].err)
       THEN /\ running' = FALSE
            /\ sbProcess' = Nil
            /\ send("terminated")
            /\ mon' = CollectMon(cmd, Nil, m2)
            /\ cmd' = CollectCmd(cmd, Nil, m2)
            /\ last' = Step("monitorProcess", "-", afterSend("reacted"), "terminated")
       ELSE /\ mon' = CollectMon(cmd, sbProcess, m2)
            /\ cmd' = CollectCmd(cmd, sbProcess, m2)
            /\ last' = Step("monitorProcess", "-", "quiet", "")
            /\ UNCHANGED <<running, sbProcess, statusChange, crashed>>
    /\ UNCHANGED <<stream, ending>>
    /\ UNCHANGED manager

\* A client opens a status stream: StreamStatus starts with lastStatus = "".
Subscribe(i) ==
    /\ Up /\ Accepting
    /\ stream[i].pc = "idle"
    /\ stream' = [stream EXCEPT ![i] = [StreamIdle EXCEPT !.pc = "open"]]
    /\ last' = Step("StreamStatus", "-", "open", "")
    /\ UNCHANGED <<running, sbProcess, cmd, mon, statusChange, crashed, ending>>
    /\ UNCHANGED manager

Duplicate_Never(status, lastStatus) == FALSE

\* StreamStatus, `if status == lastStatus`.
Duplicate(status, lastStatus) == status = lastStatus

\* StreamStatus, `case status, ok := <-s.statusChange`: a duplicate of the
\* last status is skipped, anything else is sent; a failed Send ends the
\* handler.
streamRecv(i) ==
    /\ Up
    /\ stream[i].pc = "open"
    /\ statusChange # <<>>
    /\ LET ev == Head(statusChange) IN
       /\ statusChange' = Tail(statusChange)
       /\ IF Duplicate(ev, stream[i].lastStatus)
          THEN /\ last' = Step("StreamStatus", "-", "skip", "")
               /\ UNCHANGED stream
          ELSE \E sent \in BOOLEAN :
                  IF sent
                  THEN /\ stream' = [stream EXCEPT ![i].lastStatus = ev,
                                                   ![i].owed = @ /\ ev # "started",
                                                   ![i].dup = @ \/ ev = stream[i].sent,
                                                   ![i].sent = ev]
                       /\ last' = Step("StreamStatus", "-", "sent", "")
                  ELSE /\ stream' = [stream EXCEPT ![i] = StreamIdle]
                       /\ last' = Step("StreamStatus", "-", "sendError", "")
    /\ UNCHANGED <<running, sbProcess, cmd, mon, crashed, ending>>
    /\ UNCHANGED manager

\* StreamStatus, `case <-stream.Context().Done()`: reads s.running without
\* the lock and returns at once when it is false.
streamDone(i) ==
    /\ Up
    /\ stream[i].pc = "open"
    /\ IF running
       THEN /\ stream' = [stream EXCEPT ![i].pc = "stopping"]
            /\ last' = Step("StreamStatus", "-", "done", "")
       ELSE /\ stream' = [stream EXCEPT ![i] = StreamIdle]
            /\ last' = Step("StreamStatus", "-", "Canceled", "")
    /\ UNCHANGED <<running, sbProcess, cmd, mon, statusChange, crashed, ending>>
    /\ UNCHANGED manager

\* StreamStatus after it saw s.running: stopSingBox, then return.
streamStop(i) ==
    /\ Up
    /\ stream[i].pc = "stopping"
    /\ \E code \in StopCodes, pub \in {"", "stopped"} :
          /\ stopSingBox(code, pub)
          /\ last' = Step("StreamStatus", "-",
                          CASE code = "OK"    -> "Canceled"
                            [] code = "panic" -> "panic"
                            [] OTHER          -> "Aborted", pub)
    /\ stream' = [stream EXCEPT ![i] = StreamIdle]
    /\ UNCHANGED ending
    /\ UNCHANGED manager

\* A handler that goes back to its select when the channel is closed.
streamClosed_KeepsWaiting(i) ==
    /\ Up
    /\ stream[i].pc = "open"
    /\ closed /\ statusChange = <<>>
    /\ last' = Step("StreamStatus", "-", "closed", "")
    /\ UNCHANGED <<running, sbProcess, cmd, mon, statusChange, stream, crashed, ending>>
    /\ UNCHANGED manager

\* StreamStatus, `if !ok`: the channel is closed and empty; the handler
\* returns nil.
streamClosed(i) ==
    /\ Up
    /\ stream[i].pc = "open"
    /\ closed /\ statusChange = <<>>
    /\ stream' = [stream EXCEPT ![i] = StreamIdle]
    /\ last' = Step("StreamStatus", "-", "closed", "")
    /\ UNCHANGED <<running, sbProcess, cmd, mon, statusChange, crashed, ending>>
    /\ UNCHANGED manager

\* Exit reads s.running without the lock.
ExitCall(e) ==
    /\ Up /\ Accepting
    /\ exit[e].pc = "idle"
    /\ exit' = [exit EXCEPT ![e].pc = IF running THEN "stopping" ELSE "scheduling"]
    /\ last' = Step("Exit", "-", "called", "")
    /\ UNCHANGED <<running, sbProcess, cmd, mon, statusChange, stream, crashed,
                   closed, main>>
    /\ UNCHANGED manager

\* Exit, `if err := s.stopSingBox(); err != nil`: the error is logged.
exitStop(e) ==
    /\ Up
    /\ exit[e].pc = "stopping"
    /\ \E code \in StopCodes, pub \in {"", "stopped"} :
          /\ stopSingBox(code, pub)
          /\ exit' = [exit EXCEPT ![e] = [pc  |-> "scheduling",
                                          err |-> IF code = "OK" THEN "" ELSE code]]
          /\ last' = Step("Exit", "-", "stop", pub)
    /\ UNCHANGED <<stream, closed, main>>
    /\ UNCHANGED manager

ExitSchedules_OnCleanStop(err) == err = ""

\* Exit, `go func() { time.Sleep(...); os.Exit(0) }()`: whether the handler
\* that logged err starts the goroutine.
ExitSchedules(err) == TRUE

ExitReply_Propagated(err) == IF err = "" THEN "OK" ELSE err

\* Exit, `return &pb.ExitResponse{}, nil`: the code the handler that logged
\* err replies with.
ExitReply(err) == "OK"

\* Exit starts the delayed os.Exit and replies.
exitReply(e) ==
    /\ Up
    /\ exit[e].pc = "scheduling"
    /\ exit' = [exit EXCEPT ![e].pc = IF ExitSchedules(exit[e].err)
                                      THEN "sleeping" ELSE "replied"]
    /\ last' = Step("Exit", "-", ExitReply(exit[e].err), "")
    /\ UNCHANGED <<running, sbProcess, cmd, mon, statusChange, stream, crashed,
                   closed, main>>
    /\ UNCHANGED manager

\* The goroutine of Exit: the sleep is over, os.Exit(0).
exitTimer(e) ==
    /\ Up
    /\ exit[e].pc = "sleeping"
    /\ exit' = [exit EXCEPT ![e].pc = "replied"]
    /\ main' = "exited"
    /\ last' = Step("Exit", "-", "os.Exit", "")
    /\ UNCHANGED <<running, sbProcess, cmd, mon, statusChange, stream, crashed, closed>>
    /\ UNCHANGED manager

\* startGRPCServer, `<-shutdown`: a termination signal arrives and main reads
\* server.running without the lock.
Signal ==
    /\ Up
    /\ main = "serving"
    /\ main' = IF running THEN "stopping" ELSE "cleanup"
    /\ last' = Step("shutdown", "-", "signal", "")
    /\ UNCHANGED <<running, sbProcess, cmd, mon, statusChange, stream, crashed,
                   closed, exit>>
    /\ UNCHANGED manager

\* startGRPCServer, `server.stopSingBox()`: the error is logged.
shutdownStop ==
    /\ Up
    /\ main = "stopping"
    /\ \E code \in StopCodes, pub \in {"", "stopped"} :
          /\ stopSingBox(code, pub)
          /\ last' = Step("shutdown", "-", code, pub)
    /\ main' = "cleanup"
    /\ UNCHANGED <<stream, closed, exit>>
    /\ UNCHANGED manager

\* startGRPCServer, `close(server.statusChange)`.
shutdownClose ==
    /\ Up
    /\ main = "cleanup"
    /\ closed' = TRUE
    /\ main' = "closed"
    /\ last' = Step("shutdown", "-", "close", "")
    /\ UNCHANGED <<running, sbProcess, cmd, mon, statusChange, stream, crashed, exit>>
    /\ UNCHANGED manager

\* startGRPCServer, grpcServer.GracefulStop() is called: no new call is taken.
GracefulStop ==
    /\ Up
    /\ main = "closed"
    /\ main' = "draining"
    /\ last' = Step("shutdown", "-", "GracefulStop", "")
    /\ UNCHANGED <<running, sbProcess, cmd, mon, statusChange, stream, crashed,
                   closed, exit>>
    /\ UNCHANGED manager

\* A handler of some call has not returned yet.
Pending ==
    \/ \E i \in Streams : stream[i].pc # "idle"
    \/ \E e \in Exits : exit[e].pc \in {"stopping", "scheduling"}

\* GracefulStop returns once every handler has returned; main returns and the
\* supervisor process ends.
mainReturn ==
    /\ Up
    /\ main = "draining"
    /\ ~Pending
    /\ main' = "exited"
    /\ last' = Step("shutdown", "-", "returned", "")
    /\ UNCHANGED <<running, sbProcess, cmd, mon, statusChange, stream, crashed,
                   closed, exit>>
    /\ UNCHANGED manager

(***************************************************************************)
(* The file-command helper: type SingBoxManager.  It keeps only the handle *)
(* m.singBoxProcess, has no exit-waiter, and its stopSingBox holds m.mu   *)
(* while it waits for the process to go.                                   *)
(***************************************************************************)
InitManager == Fresh /\ goos \in {"linux", "windows"} /\ monitor = NoMonitor

\* SingBoxManager.loadConfig: ReadFile or Unmarshal fails.
managerLoadConfig(env) ==
    IF env \in {"cfgMissing", "cfgUnreadable", "cfgBadJson"} THEN "error" ELSE "OK"

\* SingBoxManager.startSingBox, `m.singBoxProcess.Start()`; nothing checks the
\* paths before it.
managerSpawns(env) == env \notin {"binMissing", "spawnFail"}

\* Cmd.ProcessState is set when a Wait on the Cmd has completed.
ProcessState(st) == IF st = "reaped" THEN "set" ELSE "nil"

FreeWatchers(d) == {k \in Watchers : watch[d][k] = "none"}

\* startSingBox, `if m.config.MonitorWp { go m.monitorProcess(...) }` and the
\* same for MonitorOb: one more watcher for each dependency the config
\* monitors.
launch(w) ==
    [d \in Deps |->
        IF monitor[d]
        THEN [w[d] EXCEPT ![CHOOSE k \in FreeWatchers(d) :
                               \A j \in FreeWatchers(d) : k <= j] = "polling"]
        ELSE w[d]]

\* SingBoxManager.startSingBox under m.mu.
managerStart(env) ==
    /\ Up /\ ~grace
    /\ IF singBoxProcess # Nil /\ ProcessState(cmd[singBoxProcess]) = "nil"
       THEN /\ last' = Step("start", env, "alreadyRunning", "")
            /\ UNCHANGED <<singBoxProcess, cmd, watch>>
       ELSE IF managerLoadConfig(env) # "OK"
       THEN /\ last' = Step("start", env, "configError", "")
            /\ UNCHANGED <<singBoxProcess, cmd, watch>>
       ELSE /\ FreeSlots # {}
            /\ managerSpawns(env) => \A d \in Deps : monitor[d] => FreeWatchers(d) # {}
            /\ LET p  == CHOOSE q \in FreeSlots : \A r \in FreeSlots : q <= r
                   c2 == [cmd EXCEPT ![p] = IF managerSpawns(env) THEN "alive" ELSE "failed"]
               IN  /\ singBoxProcess' = p
                   /\ cmd' = CollectCmd(c2, p, mon)
                   /\ watch' = IF managerSpawns(env) THEN launch(watch) ELSE watch
                   /\ last' = Step("start", env,
                                   IF managerSpawns(env) THEN "OK" ELSE "startError", "")
    /\ UNCHANGED <<running, sbProcess, mon, statusChange, stream, crashed, ending,
                   grace, goos, monitor, dep, fired>>

\* os.Process.Signal(SIGTERM) on a process in state st: it fails once a Wait
\* on the process has completed.
Signalled(st) == IF st = "reaped" THEN "done" ELSE "ok"

\* SingBoxManager.stopSingBox up to its select.  What its caller does next is
\* the caller's.
managerStop ==
    /\ Up /\ ~grace
    /\ IF singBoxProcess = Nil
       THEN /\ last' = Step("stop", "-", "none", "")
            /\ UNCHANGED <<singBoxProcess, cmd, crashed, grace>>
       ELSE IF cmd[singBoxProcess] = "failed"
       THEN \* m.singBoxProcess.Process is nil
            /\ crashed' = TRUE
            /\ last' = Step("stop", "-", "panic", "")
            /\ UNCHANGED <<singBoxProcess, cmd, grace>>
       ELSE IF goos = "windows"
       THEN \E k \in Kill(cmd[singBoxProcess]) :
               IF k = "ok"
               THEN /\ cmd' = CollectCmd([cmd EXCEPT ![singBoxProcess] = Killed(@)], Nil, mon)
                    /\ singBoxProcess' = Nil
                    /\ last' = Step("stop", "-", "OK", "")
                    /\ UNCHANGED <<crashed, grace>>
               ELSE /\ last' = Step("stop", "-", "stopError", "")
                    /\ UNCHANGED <<singBoxProcess, cmd, crashed, grace>>
       ELSE IF Signalled(cmd[singBoxProcess]) = "ok"
       THEN /\ grace' = TRUE
            /\ last' = Step("stop", "-", "SIGTERM", "")
            /\ UNCHANGED <<singBoxProcess, cmd, crashed>>
       ELSE /\ last' = Step("stop", "-", "stopError", "")
            /\ UNCHANGED <<singBoxProcess, cmd, crashed, grace>>
    /\ UNCHANGED <<running, sbProcess, mon, statusChange, stream, ending, goos,
                   monitor, dep, fired, file, fw, delivered>>

watcherReturns_Loops == "polling"

\* monitorProcess, `stopCallback(); return`: the watcher ends when its
\* callback has returned.
watcherReturns == "none"

\* Where the watcher of d is once the stopSingBox of its callback has
\* returned: handleExit goes on to os.Exit.
afterStop(d) == IF d = "ob" THEN "exiting" ELSE watcherReturns

\* The watchers and the command loop when the stopSingBox that was waiting in
\* its select returns to its caller.
watchReturned(w) ==
    [d \in Deps |-> [k \in Watchers |->
        IF w[d][k] = "grace" THEN afterStop(d) ELSE w[d][k]]]

loopReturned_KeepsWaiting(l) == l

loopReturned(l) ==
    IF l.pc # "grace" THEN l
    ELSE IF l.command = "exit" THEN [l EXCEPT !.pc = "exiting"]
    ELSE LoopIdle

\* stopSingBox, `case err = <-done`: the process went within the 5 seconds and
\* Wait returned; only a nil error clears the handle.
graceDone ==
    /\ Up /\ grace
    /\ cmd[singBoxProcess] # "alive"
    /\ LET c2 == [cmd EXCEPT ![singBoxProcess] = "reaped"] IN
       IF WaitErr(cmd[singBoxProcess])
       THEN /\ cmd' = c2
            /\ last' = Step("stop", "done", "stopError", "")
            /\ UNCHANGED singBoxProcess
       ELSE /\ cmd' = CollectCmd(c2, Nil, mon)
            /\ singBoxProcess' = Nil
            /\ last' = Step("stop", "done", "OK", "")
    /\ grace' = FALSE
    /\ watch' = watchReturned(watch)
    /\ loop' = loopReturned(loop)
    /\ UNCHANGED <<running, sbProcess, mon, statusChange, stream, crashed, ending, goos,
                   monitor, dep, fired, file, fw, delivered>>

\* stopSingBox, `case <-time.After(5 * time.Second)`: Kill, and only a nil
\* error clears the handle.
graceTimeout ==
    /\ Up /\ grace
    /\ \E k \in Kill(cmd[singBoxProcess]) :
          IF k = "ok"
          THEN /\ cmd' = CollectCmd([cmd EXCEPT ![singBoxProcess] = Killed(@)], Nil, mon)
               /\ singBoxProcess' = Nil
               /\ last' = Step("stop", "timeout", "OK", "")
          ELSE /\ last' = Step("stop", "timeout", "stopError", "")
               /\ UNCHANGED <<singBoxProcess, cmd>>
    /\ grace' = FALSE
    /\ watch' = watchReturned(watch)
    /\ loop' = loopReturned(loop)
    /\ UNCHANGED <<running, sbProcess, mon, statusChange, stream, crashed, ending, goos,
                   monitor, dep, fired, file, fw, delivered>>

\* The process of the helper exits: on its own, or on the SIGTERM it got.
managerProcExit(p) ==
    /\ cmd[p] = "alive"
    /\ \E st \in {"exit0", "exitErr"} :
          cmd' = CollectCmd([cmd EXCEPT ![p] = st], singBoxProcess, mon)
    /\ last' = Step("exit", "-", "-", "")
    /\ UNCHANGED <<running, sbProcess, mon, statusChange, stream, crashed, ending, manager>>

\* A start command, whenever the command loop gets to it.
commandStart(env) == managerStart(env) /\ UNCHANGED commands

\* A stop command, whenever the command loop gets to it.
commandStop == managerStop /\ UNCHANGED <<watch, loop>>

NextManager ==
    \/ \E env \in StartEnvs : commandStart(env)
    \/ commandStop
    \/ graceDone
    \/ graceTimeout
    \/ \E p \in Procs : managerProcExit(p)

SpecManager == InitManager /\ [][NextManager]_vars

(***************************************************************************)
(* The dependency watchers of the helper: every successful startSingBox    *)
(* starts one monitorProcess goroutine for each dependency the config      *)
(* monitors.  A watcher polls outside m.mu; its callback calls stopSingBox *)
(* (Warp-Plus) or handleExit (Oblivion-Desktop).                           *)
(***************************************************************************)
\* The companion process of d goes away.
DepDown(d) ==
    /\ Up
    /\ dep[d]
    /\ dep' = [dep EXCEPT ![d] = FALSE]
    /\ fired' = [fired EXCEPT ![d] = 0]
    /\ last' = Step("dependency", d, "down", "")
    /\ UNCHANGED <<running, sbProcess, cmd, mon, statusChange, stream, crashed, ending,
                   singBoxProcess, grace, goos, monitor, watch, commands>>

\* The companion process of d is started again.
DepUp(d) ==
    /\ Up
    /\ ~dep[d]
    /\ dep' = [dep EXCEPT ![d] = TRUE]
    /\ last' = Step("dependency", d, "up", "")
    /\ UNCHANGED <<running, sbProcess, cmd, mon, statusChange, stream, crashed, ending,
                   singBoxProcess, grace, goos, monitor, watch, fired, commands>>

\* isProcessRunning: pgrep / Get-Process finds the process.
isProcessRunning(d) == dep[d]

\* A poll made with m.mu held: it waits while a stopSingBox is in its select.
watchPoll_UnderLock(d, k) ==
    /\ Up /\ ~grace
    /\ watch[d][k] = "polling"
    /\ IF isProcessRunning(d)
       THEN /\ last' = Step("monitorProcess", d, "running", "")
            /\ UNCHANGED <<watch, fired>>
       ELSE /\ watch' = [watch EXCEPT ![d][k] = "calling"]
            /\ fired' = [fired EXCEPT ![d] = IF @ < 2 THEN @ + 1 ELSE @]
            /\ last' = Step("monitorProcess", d, "callback", "")
    /\ UNCHANGED <<running, sbProcess, cmd, mon, statusChange, stream, crashed, ending,
                   singBoxProcess, grace, goos, monitor, dep, commands>>

\* monitorProcess, `case <-ticker.C`: one poll.
watchPoll(d, k) ==
    /\ Up
    /\ watch[d][k] = "polling"
    /\ IF isProcessRunning(d)
       THEN /\ last' = Step("monitorProcess", d, "running", "")
            /\ UNCHANGED <<watch, fired>>
       ELSE /\ watch' = [watch EXCEPT ![d][k] = "calling"]
            /\ fired' = [fired EXCEPT ![d] = IF @ < 2 THEN @ + 1 ELSE @]
            /\ last' = Step("monitorProcess", d, "callback", "")
    /\ UNCHANGED <<running, sbProcess, cmd, mon, statusChange, stream, crashed, ending,
                   singBoxProcess, grace, goos, monitor, dep, commands>>

\* The callback of a watcher calls stopSingBox: directly (Warp-Plus) or as
\* the first statement of handleExit (Oblivion-Desktop).
watchCall(d, k) ==
    /\ watch[d][k] = "calling"
    /\ managerStop
    /\ watch' = [watch EXCEPT ![d][k] = IF grace' THEN "grace" ELSE afterStop(d)]
    /\ UNCHANGED loop

\* handleExit called by the Oblivion-Desktop watcher, `os.Exit(0)`.
watchExit(k) ==
    /\ Up
    /\ watch["ob"][k] = "exiting"
    /\ main' = "exited"
    /\ last' = Step("handleExit", "ob", "os.Exit", "")
    /\ UNCHANGED <<running, sbProcess, cmd, mon, statusChange, stream, crashed,
                   closed, exit, manager>>

\* The config monitors one of the two dependencies.
InitOneWatch ==
    /\ Fresh /\ goos \in {"linux", "windows"}
    /\ monitor \in {m \in [Deps -> BOOLEAN] : Cardinality({d \in Deps : m[d]}) = 1}

\* Start commands that find the config and either spawn or fail to.
commandStartInPlace == \E env \in {"ok", "spawnFail"} : commandStart(env)

NextOneWatch ==
    \/ commandStartInPlace
    \/ commandStop
    \/ graceDone
    \/ graceTimeout
    \/ \E p \in Procs : managerProcExit(p)
    \/ \E d \in Deps : monitor[d] /\ DepDown(d)
    \/ \E d \in Deps : monitor[d] /\ DepUp(d)
    \/ \E d \in Deps, k \in Watchers : watchPoll(d, k)
    \/ \E d \in Deps, k \in Watchers : watchCall(d, k)
    \/ \E k \in Watchers : watchExit(k)

\* The ticker of a watcher keeps ticking, a goroutine waiting for m.mu gets it
\* (sync.Mutex hands the lock to a waiter that would starve), the select of
\* stopSingBox ends after 5 seconds at the latest, and a goroutine that can
\* call os.Exit does.
SpecOneWatch ==
    /\ InitOneWatch /\ [][NextOneWatch]_vars
    /\ \A d \in Deps, k \in Watchers : WF_vars(watchPoll(d, k))
    /\ \A d \in Deps, k \in Watchers : SF_vars(watchCall(d, k))
    /\ WF_vars(graceDone \/ graceTimeout)
    /\ \A k \in Watchers : WF_vars(watchExit(k))

\* Both companion processes go away at once (the desktop application ends and
\* takes Warp-Plus with it).
DepsDown ==
    /\ Up
    /\ \A d \in Deps : dep[d]
    /\ dep' = [d \in Deps |-> FALSE]
    /\ fired' = [d \in Deps |-> 0]
    /\ last' = Step("dependency", "both", "down", "")
    /\ UNCHANGED <<running, sbProcess, cmd, mon, statusChange, stream, crashed, ending,
                   singBoxProcess, grace, goos, monitor, watch, commands>>

\* The config monitors both dependencies.
InitTwoWatch ==
    /\ Fresh /\ goos \in {"linux", "windows"}
    /\ monitor = [d \in Deps |-> TRUE]

NextTwoWatch ==
    \/ commandStartInPlace
    \/ commandStop
    \/ graceDone
    \/ graceTimeout
    \/ \E p \in Procs : managerProcExit(p)
    \/ DepsDown
    \/ \E d \in Deps, k \in Watchers : watchPoll(d, k)
    \/ \E d \in Deps, k \in Watchers : watchCall(d, k)
    \/ \E k \in Watchers : watchExit(k)

SpecTwoWatch ==
    /\ InitTwoWatch /\ [][NextTwoWatch]_vars
    /\ \A d \in Deps, k \in Watchers : WF_vars(watchPoll(d, k))
    /\ \A d \in Deps, k \in Watchers : SF_vars(watchCall(d, k))
    /\ WF_vars(graceDone \/ graceTimeout)
    /\ \A k \in Watchers : WF_vars(watchExit(k))

(***************************************************************************)
(* The command file of the helper: watchCommandFile polls it and hands     *)
(* each command to main over the unbuffered commandChan; main runs         *)
(* processCommand on one command at a time.                                *)
(***************************************************************************)

\* A client rewrites the command file.
WriteFile(t) ==
    /\ Up
    /\ file.mtime < MaxMods
    /\ file' = [mtime |-> file.mtime + 1, text |-> t]
    /\ last' = Step("write", t, "-", "")
    /\ UNCHANGED <<running, sbProcess, cmd, mon, statusChange, stream, crashed, ending,
                   singBoxProcess, grace, goos, monitor, dep, watch, fired,
                   fw, loop, delivered>>

\* readCommandFromFile: the first line, trimmed and in lower case.
readCommandFromFile(t) ==
    CASE t = "Stop " -> "stop"
      [] OTHER       -> t

\* time.Time.After.
After(t, u) == t > u

\* watchCommandFile, `case <-ticker.C`: Stat, and the test of the ModTime.
fwStat ==
    /\ Up
    /\ fw.pc = "tick"
    /\ IF file.mtime = 0
       THEN /\ last' = Step("watchCommandFile", "-", "noFile", "")
            /\ UNCHANGED fw
       ELSE IF After(file.mtime, fw.lastModTime)
       THEN /\ fw' = [fw EXCEPT !.pc = "read", !.seen = file.mtime]
            /\ last' = Step("watchCommandFile", "-", "modified", "")
       ELSE /\ last' = Step("watchCommandFile", "-", "unchanged", "")
            /\ UNCHANGED fw
    /\ UNCHANGED <<running, sbProcess, cmd, mon, statusChange, stream, crashed, ending,
                   singBoxProcess, grace, goos, monitor, dep, watch, fired,
                   file, loop, delivered>>

\* watchCommandFile, `command, err := m.readCommandFromFile()`: an empty
\* command is not sent and lastModTime stays.
fwRead ==
    /\ Up
    /\ fw.pc = "read"
    /\ LET command == readCommandFromFile(file.text) IN
       IF command = ""
       THEN fw' = [fw EXCEPT !.pc = "tick"]
       ELSE fw' = [fw EXCEPT !.pc = "send", !.command = command, !.of = file.mtime]
    /\ last' = Step("watchCommandFile", "-", "read", "")
    /\ UNCHANGED <<running, sbProcess, cmd, mon, statusChange, stream, crashed, ending,
                   singBoxProcess, grace, goos, monitor, dep, watch, fired,
                   file, loop, delivered>>

\* `commandChan <- command` meets `range commandChan`; then
\* `lastModTime = fileInfo.ModTime()`.
fwSend ==
    /\ Up
    /\ fw.pc = "send"
    /\ loop.pc = "recv"
    /\ loop' = [pc |-> "run", command |-> fw.command]
    /\ fw' = [fw EXCEPT !.pc = "tick", !.lastModTime = fw.seen, !.command = ""]
    /\ delivered' = [delivered EXCEPT ![fw.of] = IF @ < 2 THEN @ + 1 ELSE @]
    /\ last' = Step("watchCommandFile", fw.command, "delivered", "")
    /\ UNCHANGED <<running, sbProcess, cmd, mon, statusChange, stream, crashed, ending,
                   singBoxProcess, grace, goos, monitor, dep, watch, fired, file>>

processCommand_StopsOnUnknown(command) ==
    CASE command = "start" -> "start"
      [] command = "exit"  -> "exit"
      [] OTHER             -> "stop"

\* processCommand, `switch command`: the branch taken.
processCommand(command) ==
    CASE command = "start" -> "start"
      [] command = "stop"  -> "stop"
      [] command = "exit"  -> "exit"
      [] OTHER             -> "default"

\* processCommand, `case "start"`.
loopStart ==
    /\ loop.pc = "run" /\ processCommand(loop.command) = "start"
    /\ \E env \in StartEnvs : managerStart(env)
    /\ loop' = LoopIdle
    /\ UNCHANGED <<file, fw, delivered>>

\* processCommand, `case "stop"`.
loopStop ==
    /\ loop.pc = "run" /\ processCommand(loop.command) = "stop"
    /\ managerStop
    /\ loop' = IF grace' THEN [loop EXCEPT !.pc = "grace"] ELSE LoopIdle
    /\ UNCHANGED watch

\* processCommand, `case "exit"`: handleExit calls stopSingBox.
loopExit ==
    /\ loop.pc = "run" /\ processCommand(loop.command) = "exit"
    /\ managerStop
    /\ loop' = [loop EXCEPT !.pc = IF grace' THEN "grace" ELSE "exiting"]
    /\ UNCHANGED watch

\* processCommand, `default`: the command is logged.
loopUnknown ==
    /\ Up
    /\ loop.pc = "run" /\ processCommand(loop.command) = "default"
    /\ loop' = LoopIdle
    /\ last' = Step("command", loop.command, "unknown", "")
    /\ UNCHANGED <<running, sbProcess, cmd, mon, statusChange, stream, crashed, ending,
                   singBoxProcess, grace, goos, monitor, dep, watch, fired,
                   file, fw, delivered>>

\* handleExit called by processCommand, `os.Exit(0)`.
loopOsExit ==
    /\ Up
    /\ loop.pc = "exiting"
    /\ main' = "exited"
    /\ last' = Step("handleExit", "command", "os.Exit", "")
    /\ UNCHANGED <<running, sbProcess, cmd, mon, statusChange, stream, crashed,
                   closed, exit, manager>>

NextCommand ==
    \/ \E t \in FileTexts : WriteFile(t)
    \/ fwStat
    \/ fwRead
    \/ fwSend
    \/ loopStart
    \/ loopStop
    \/ loopExit
    \/ loopUnknown
    \/ loopOsExit
    \/ graceDone
    \/ graceTimeout
    \/ \E p \in Procs : managerProcExit(p)

SpecCommand == InitManager /\ [][NextCommand]_vars

\* The helper as a whole: the command file, the command loop and the watchers
\* of the monitored dependency.
NextHelper ==
    \/ \E t \in FileTexts : WriteFile(t)
    \/ fwStat
    \/ fwRead
    \/ fwSend
    \/ loopStart
    \/ loopStop
    \/ loopExit
    \/ loopUnknown
    \/ loopOsExit
    \/ graceDone
    \/ graceTimeout
    \/ \E p \in Procs : managerProcExit(p)
    \/ \E d \in Deps : monitor[d] /\ DepDown(d)
    \/ \E d \in Deps : monitor[d] /\ DepUp(d)
    \/ \E d \in Deps, k \in Watchers : watchPoll(d, k)
    \/ \E d \in Deps, k \in Watchers : watchCall(d, k)
    \/ \E k \in Watchers : watchExit(k)

\* A send and a receive that meet on commandChan go through; the command
\* loop waiting for m.mu gets it (sync.Mutex hands the lock to a waiter that
\* would starve); the select of stopSingBox ends after 5 seconds at the
\* latest; the loop returns from processCommand and from handleExit.  Nothing
\* is assumed of the watchers.
SpecHelper ==
    /\ InitOneWatch /\ [][NextHelper]_vars
    /\ WF_vars(fwSend)
    /\ SF_vars(loopStart \/ loopStop \/ loopExit)
    /\ WF_vars(loopUnknown \/ loopOsExit)
    /\ WF_vars(graceDone \/ graceTimeout)

\* The supervisor with no status stream attached.
Next ==
    \/ Start
    \/ Stop
    \/ \E p \in Procs : ProcExit(p)
    \/ \E w \in Procs : monitorRead(w)
    \/ \E w \in Procs : monitorWait(w)
    \/ \E w \in Procs : monitorReact(w)

Spec == Init /\ [][Next]_vars

\* Start while status streams are open: only the first BusProcs exec.Cmd
\* slots are used.
StartBounded == Start /\ \A p \in Procs : p > BusProcs => cmd'[p] = "unborn"

\* The supervisor with its status streams.
NextStream ==
    \/ StartBounded
    \/ Stop
    \/ \E p \in Procs : ProcExit(p)
    \/ \E w \in Procs : monitorRead(w)
    \/ \E w \in Procs : monitorWait(w)
    \/ \E w \in Procs : monitorReact(w)
    \/ \E i \in Streams : Subscribe(i)
    \/ \E i \in Streams : streamRecv(i)
    \/ \E i \in Streams : streamDone(i)
    \/ \E i \in Streams : streamStop(i)

SpecStream == Init /\ [][NextStream]_vars

FirstStream == CHOOSE i \in Streams : \A j \in Streams : i <= j

\* Start calls that find the config and both paths in place (the others
\* return before they touch the server), on the first BusProcs slots.
StartInPlace ==
    /\ \E env \in {e \in StartEnvs : loadConfig(e) = "OK" /\ statPaths(e) = "OK"} :
          startSingBox(env)
    /\ \A p \in Procs : p > BusProcs => cmd'[p] = "unborn"

\* The supervisor with one status stream, the only receiver on the channel.
NextOneStream ==
    \/ StartInPlace
    \/ Stop
    \/ \E p \in Procs : ProcExit(p)
    \/ \E w \in Procs : monitorRead(w)
    \/ \E w \in Procs : monitorWait(w)
    \/ \E w \in Procs : monitorReact(w)
    \/ Subscribe(FirstStream)
    \/ streamRecv(FirstStream)
    \/ streamDone(FirstStream)
    \/ streamStop(FirstStream)

SpecOneStream == Init /\ [][NextOneStream]_vars

\* The supervisor with Exit calls.
NextExit ==
    \/ StartInPlace
    \/ Stop
    \/ \E p \in Procs : ProcExit(p)
    \/ \E w \in Procs : monitorRead(w)
    \/ \E w \in Procs : monitorWait(w)
    \/ \E w \in Procs : monitorReact(w)
    \/ \E e \in Exits : ExitCall(e)
    \/ \E e \in Exits : exitStop(e)
    \/ \E e \in Exits : exitReply(e)
    \/ \E e \in Exits : exitTimer(e)

\* A handler that can run does run, and the sleep of Exit's goroutine ends.
SpecExit ==
    /\ Init /\ [][NextExit]_vars
    /\ WF_vars(\E e \in Exits : exitStop(e))
    /\ WF_vars(\E e \in Exits : exitReply(e))
    /\ WF_vars(\E e \in Exits : exitTimer(e))

\* The supervisor with one status stream and the signal-triggered shutdown.
NextShutdown ==
    \/ StartInPlace
    \/ Stop
    \/ \E p \in Procs : ProcExit(p)
    \/ \E w \in Procs : monitorRead(w)
    \/ \E w \in Procs : monitorWait(w)
    \/ \E w \in Procs : monitorReact(w)
    \/ Subscribe(FirstStream)
    \/ streamRecv(FirstStream)
    \/ streamDone(FirstStream)
    \/ streamStop(FirstStream)
    \/ streamClosed(FirstStream)
    \/ Signal
    \/ shutdownStop
    \/ shutdownClose
    \/ GracefulStop
    \/ mainReturn

SpecShutdown == Init /\ [][NextShutdown]_vars

FirstProc == CHOOSE p \in Procs : \A q \in Procs : p <= q

\* Start calls that find everything in place, with one exec.Cmd in use at a
\* time.
StartFirstSlot ==
    /\ StartInPlace
    /\ \A p \in Procs : p # FirstProc => cmd'[p] = "unborn"

\* The supervisor with one status stream and the signal-triggered shutdown,
\* one exec.Cmd at a time.
NextShutdownLive ==
    \/ StartFirstSlot
    \/ Stop
    \/ \E p \in Procs : ProcExit(p)
    \/ \E w \in Procs : monitorRead(w)
    \/ \E w \in Procs : monitorWait(w)
    \/ \E w \in Procs : monitorReact(w)
    \/ Subscribe(FirstStream)
    \/ streamRecv(FirstStream)
    \/ streamDone(FirstStream)
    \/ streamStop(FirstStream)
    \/ streamClosed(FirstStream)
    \/ Signal
    \/ shutdownStop
    \/ shutdownClose
    \/ GracefulStop
    \/ mainReturn

\* main is not blocked once the signal has arrived (stopSingBox only needs
\* s.mu, which nobody holds while blocked), a stream handler that can receive
\* from the channel or find it closed does, and one that goes on to
\* stopSingBox gets the lock.
SpecShutdownLive ==
    /\ Init /\ [][NextShutdownLive]_vars
    /\ WF_vars(shutdownStop)
    /\ WF_vars(shutdownClose)
    /\ WF_vars(GracefulStop)
    /\ WF_vars(mainReturn)
    /\ WF_vars(streamRecv(FirstStream) \/ streamClosed(FirstStream))
    /\ WF_vars(streamStop(FirstStream))

\* The supervisor with Exit calls and the signal-triggered shutdown.
NextTermination ==
    \/ StartInPlace
    \/ Stop
    \/ \E p \in Procs : ProcExit(p)
    \/ \E w \in Procs : monitorRead(w)
    \/ \E w \in Procs : monitorWait(w)
    \/ \E w \in Procs : monitorReact(w)
    \/ \E e \in Exits : ExitCall(e)
    \/ \E e \in Exits : exitStop(e)
    \/ \E e \in Exits : exitReply(e)
    \/ \E e \in Exits : exitTimer(e)
    \/ Signal
    \/ shutdownStop
    \/ shutdownClose
    \/ GracefulStop
    \/ mainReturn

SpecTermination == Init /\ [][NextTermination]_vars

(***************************************************************************)
(* The earlier gRPC server of src/cmd/main.go.  Its Start and Stop do what *)
(* startSingBox and stopSingBox above do for a Start call that finds its   *)
(* files; its exit-waiter broadcasts `stopped`; its Exit broadcasts        *)
(* `exited` first and takes no lock, and neither does the helper           *)
(* stopSingBox that Exit calls.                                            *)
(***************************************************************************)

\* monitorProcess of main.go, last step, under s.mu.
mainMonitorReact(w) ==
    /\ Up
    /\ mon[w].pc = "returned"
    /\ LET m2 == [mon EXCEPT ![w] = MonDone] IN
       IF Unexpected(mon[w].err)
       THEN /\ running' = FALSE
            /\ sbProcess' = Nil
            /\ send("stopped")
            /\ mon' = CollectMon(cmd, Nil, m2)
            /\ cmd' = CollectCmd(cmd, Nil, m2)
            /\ last' = Step("monitorProcess", "-", afterSend("reacted"), "stopped")
       ELSE /\ mon' = CollectMon(cmd, sbProcess, m2)
            /\ cmd' = CollectCmd(cmd, sbProcess, m2)
            /\ last' = Step("monitorProcess", "-", "quiet", "")
            /\ UNCHANGED <<running, sbProcess, statusChange, crashed>>
    /\ UNCHANGED <<stream, ending>>
    /\ UNCHANGED manager

\* Exit of main.go, `s.broadcastStatus("exited")`.
mainExitAnnounce(e) ==
    /\ Up /\ Accepting
    /\ exit[e].pc = "idle"
    /\ send("exited")
    /\ exit' = [exit EXCEPT ![e].pc = "announced"]
    /\ last' = Step("Exit", "-", afterSend("called"), "exited")
    /\ UNCHANGED <<running, sbProcess, cmd, mon, stream, closed, main>>
    /\ UNCHANGED manager

\* Exit of main.go, `if s.running`.
mainExitRead(e) ==
    /\ Up
    /\ exit[e].pc = "announced"
    /\ exit' = [exit EXCEPT ![e].pc = IF running THEN "stopping" ELSE "scheduling"]
    /\ last' = Step("Exit", "-", "read", "")
    /\ UNCHANGED <<running, sbProcess, cmd, mon, statusChange, stream, crashed,
                   closed, main>>
    /\ UNCHANGED manager

\* Exit of main.go, `s.stopSingBox()`: the helper kills through s.sbProcess
\* and, when Kill returned nil, clears the handle and the flag and broadcasts
\* `stopped`; Exit logs its error.
mainExitStop(e) ==
    /\ Up
    /\ exit[e].pc = "stopping"
    /\ IF sbProcess = Nil \/ cmd[sbProcess] \in {"unborn", "failed", "gone"}
       THEN /\ crashed' = TRUE
            /\ exit' = [exit EXCEPT ![e] = [pc |-> "scheduling", err |-> "panic"]]
            /\ last' = Step("Exit", "-", "stop", "")
            /\ UNCHANGED <<running, sbProcess, cmd, mon, statusChange>>
       ELSE \E k \in Kill(cmd[sbProcess]) :
               IF k = "ok"
               THEN LET c2 == [cmd EXCEPT ![sbProcess] = Killed(@)]
                    IN  /\ cmd' = CollectCmd(c2, Nil, mon)
                        /\ mon' = CollectMon(c2, Nil, mon)
                        /\ sbProcess' = Nil
                        /\ running' = FALSE
                        /\ send("stopped")
                        /\ exit' = [exit EXCEPT ![e] = [pc  |-> "scheduling",
                                                        err |-> afterSend("")]]
                        /\ last' = Step("Exit", "-", "stop", "stopped")
               ELSE /\ exit' = [exit EXCEPT ![e] = [pc |-> "scheduling", err |-> "Internal"]]
                    /\ last' = Step("Exit", "-", "stop", "")
                    /\ UNCHANGED <<running, sbProcess, cmd, mon, statusChange, crashed>>
    /\ UNCHANGED <<stream, closed, main>>
    /\ UNCHANGED manager

NextMainGo ==
    \/ StartInPlace
    \/ Stop
    \/ \E p \in Procs : ProcExit(p)
    \/ \E w \in Procs : monitorRead(w)
    \/ \E w \in Procs : monitorWait(w)
    \/ \E w \in Procs : mainMonitorReact(w)
    \/ \E e \in Exits : mainExitAnnounce(e)
    \/ \E e \in Exits : mainExitRead(e)
    \/ \E e \in Exits : mainExitStop(e)
    \/ \E e \in Exits : exitReply(e)
    \/ \E e \in Exits : exitTimer(e)

SpecMainGo == Init /\ [][NextMainGo]_vars

(***************************************************************************)
(* The gRPC server that embeds sing-box as a library (the Go program in    *)
(* src/.github/workflows/build.yml).  `running` stands for                 *)
(* `s.instance != nil`; startSingBox holds s.mu for its whole body, the    *)
(* ruleset download included.                                              *)
(***************************************************************************)

\* What one Start call of the embedded server finds: the export config and
\* the ruleset directory, then the sing-box config and the library.
ExportEnvs == {"none", "urls", "unreadable", "badJson", "mkdirFail"}

BoxEnvs == {"ok", "cfgMissing", "cfgUnreadable", "cfgBadJson", "newFail", "startFail"}

\* downloadRulesets: whether it returns an error.  A missing or empty export
\* config is skipped; a failed download of one file is only logged.
downloadRulesets(x) == IF x \in {"unreadable", "badJson", "mkdirFail"} THEN "error" ELSE "OK"

\* downloadRulesets, `s.broadcastStatus("preparing")`: reached when the
\* export config lists URLs and the ruleset directory is there.
Prepares(x) == x = "urls"

\* loadSingBoxConfig, box.New and instance.Start: the code startSingBox
\* returns for what they find.
loadSingBoxConfig(b) ==
    CASE b = "cfgMissing"    -> "NotFound"
      [] b = "cfgUnreadable" -> "Internal"
      [] b = "cfgBadJson"    -> "InvalidArgument"
      [] b = "newFail"       -> "Internal"
      [] b = "startFail"     -> "Internal"
      [] OTHER               -> "OK"

\* The statuses one startSingBox of the embedded server broadcasts, in order.
embeddedStatuses(x, b) ==
    IF downloadRulesets(x) # "OK" THEN <<"download-failed">>
    ELSE (IF Prepares(x) THEN <<"preparing">> ELSE <<>>)
         \o (IF loadSingBoxConfig(b) = "OK" THEN <<"started">> ELSE <<>>)

\* Consecutive broadcasts of one locked body.
broadcastAll(ch, evs) ==
    IF evs = <<>> THEN ch
    ELSE IF Len(evs) = 1 THEN broadcastStatus(ch, evs[1])
    ELSE broadcastStatus(broadcastStatus(ch, evs[1]), evs[2])

\* startSingBox of the embedded server, under s.mu.
embeddedStart(x, b) ==
    /\ Up /\ Accepting
    /\ IF running
       THEN /\ last' = Step("Start", <<x, b>>, "AlreadyExists", "")
            /\ UNCHANGED <<running, statusChange, crashed>>
       ELSE LET evs  == embeddedStatuses(x, b)
                code == IF downloadRulesets(x) # "OK" THEN "FailedPrecondition"
                        ELSE loadSingBoxConfig(b)
            IN  /\ IF evs # <<>> /\ closed
                   THEN crashed' = TRUE /\ UNCHANGED statusChange
                   ELSE statusChange' = broadcastAll(statusChange, evs) /\ UNCHANGED crashed
                /\ running' = (code = "OK")
                /\ last' = Step("Start", <<x, b>>,
                                IF evs # <<>> THEN afterSend(code) ELSE code,
                                IF evs = <<>> THEN "" ELSE evs[Len(evs)])
    /\ UNCHANGED <<sbProcess, cmd, mon, stream, ending>>
    /\ UNCHANGED manager

\* stopSingBox of the embedded server, under s.mu; closes is whether
\* instance.Close() returns nil.
embeddedStop(closes) ==
    /\ Up /\ Accepting
    /\ IF ~running
       THEN /\ last' = Step("Stop", "-", "FailedPrecondition", "")
            /\ UNCHANGED <<running, statusChange, crashed>>
       ELSE IF ~closes
       THEN /\ last' = Step("Stop", "-", "Internal", "")
            /\ UNCHANGED <<running, statusChange, crashed>>
       ELSE /\ running' = FALSE
            /\ send("stopped")
            /\ last' = Step("Stop", "-", afterSend("OK"), "stopped")
    /\ UNCHANGED <<sbProcess, cmd, mon, stream, ending>>
    /\ UNCHANGED manager

NextEmbedded ==
    \/ \E x \in ExportEnvs, b \in BoxEnvs : embeddedStart(x, b)
    \/ \E closes \in BOOLEAN : embeddedStop(closes)

SpecEmbedded == Init /\ [][NextEmbedded]_vars

(***************************************************************************)
(* The claims.                                                             *)
(***************************************************************************)

Alive == {p \in Procs : cmd[p] = "alive"}

\* What of the supervisor a rejected call must leave alone.
lifecycle == <<running, sbProcess, cmd, mon, statusChange, stream, crashed>>

\* The supervisor process has ended: os.Exit, main returning, or a panic.
Terminated == main = "exited" \/ crashed

\* C1: there are never two live managed OS processes at the same time.
C1_AtMostOneProcess == Cardinality(Alive) <= 1

\* C2: when the managed process has exited on its own while Running and its
\* exit-waiter has observed the exit and returned, the supervisor has left
\* Running.
C2_UnsolicitedExitLeavesRunning ==
    \A p \in Procs :
        (cmd[p] = "reaped" /\ mon[p].pc = "done") => ~(running /\ sbProcess = p)

\* C3: the exit-waiter launched for one instance, finishing while another,
\* live instance is the running one, changes neither the running flag nor the
\* handle and broadcasts nothing.
C3_WaiterIsolation ==
    [][\A w \in Procs :
          (/\ mon[w].pc = "returned" /\ mon'[w].pc # "returned"
           /\ running /\ sbProcess \in Procs \ {w} /\ cmd[sbProcess] = "alive")
          => (running' /\ sbProcess' = sbProcess /\ last'.pub = "")]_vars

\* C4: Start on a Running supervisor replies AlreadyExists, spawns nothing,
\* broadcasts nothing and leaves the flag, the handle and the process as
\* they were.
C4_StartOnRunningRejected ==
    [][(last'.op = "Start" /\ running)
       => (/\ last'.code = "AlreadyExists" /\ last'.pub = ""
           /\ Alive' = Alive
           /\ UNCHANGED lifecycle)]_vars

C4_Witness ==
    /\ last.op = "Start" /\ last.code = "AlreadyExists"
    /\ running /\ sbProcess # Nil /\ cmd[sbProcess] = "alive"

\* C5: Stop on a Stopped supervisor replies FailedPrecondition (NotRunning),
\* changes no state and broadcasts no status.
C5_StopOnStoppedRejected ==
    [][(last'.op = "Stop" /\ ~running)
       => (/\ last'.code = "FailedPrecondition" /\ last'.pub = ""
           /\ UNCHANGED lifecycle)]_vars

C5_Witness ==
    /\ last.op = "Stop" /\ last.code = "FailedPrecondition"
    /\ ~running /\ sbProcess # Nil

\* C6: after a Start whose spawn step failed the supervisor is Stopped and
\* holds no process handle.
C6_SpawnFailureLeavesNoHandle ==
    (last.op = "Start" /\ last.arg = "spawnFail" /\ last.code = "Internal")
    => (~running /\ sbProcess = Nil)

PreSpawnFailure ==
    [cfgMissing |-> "NotFound", cfgUnreadable |-> "Internal",
     cfgBadJson |-> "InvalidArgument", binMissing |-> "NotFound",
     sbCfgMissing |-> "NotFound"]

\* C7: Start from Stopped with the configuration file absent, unreadable or
\* unparsable, or with the executable (or its config) missing, fails with the
\* matching code before anything is spawned, and the state stays Stopped.
C7_ConfigErrorsFailBeforeSpawn ==
    [][(last'.op = "Start" /\ ~running /\ last'.arg \in DOMAIN PreSpawnFailure)
       => (/\ last'.code = PreSpawnFailure[last'.arg] /\ last'.pub = ""
           /\ ~running' /\ Alive' = Alive
           /\ UNCHANGED lifecycle)]_vars

C7_Witness ==
    /\ last.op = "Start" /\ last.arg = "binMissing" /\ last.code = "NotFound"
    /\ ~running /\ sbProcess = Nil /\ Alive = {}

\* C8: a stream that was open when a Start succeeded, and is still open, can
\* still observe `started`: it has sent it, or one is still on the channel.
C8_SubscriberObservesStarted ==
    \A i \in Streams :
        (stream[i].pc = "open" /\ stream[i].owed)
        => \E k \in 1..Len(statusChange) : statusChange[k] = "started"

C10_StopAfterExitSucceeds ==
    [][(last'.op = "Stop" /\ running /\ sbProcess # Nil /\ cmd[sbProcess] = "reaped")
       => (last'.code = "OK" /\ ~running' /\ sbProcess' = Nil)]_vars

\* C12: a Start with everything in place, issued after the managed process
\* exited on its own and its exit-waiter has finished, is served as from
\* Stopped: it replies OK, installs a handle to a fresh live process and the
\* supervisor is Running.
C12_RestartAfterTermination ==
    [][(/\ last'.op = "Start" /\ last'.arg = "ok"
        /\ sbProcess # Nil /\ cmd[sbProcess] = "reaped"
        /\ mon[sbProcess].pc = "done" /\ Alive = {})
       => (/\ last'.code = "OK" /\ running'
           /\ sbProcess' # Nil /\ cmd'[sbProcess'] = "alive")]_vars

\* C13: no status stream sends its client the same status twice in a row.
C13_Deduplication == \A i \in Streams : ~stream[i].dup

C13_Witness ==
    /\ last.op = "StreamStatus" /\ last.code = "skip"
    /\ \E i \in Streams : stream[i].pc = "open" /\ stream[i].sent = "started"
                            /\ stream[i].lastStatus = "started"

\* C14: the channel never holds more than its capacity, and every broadcast
\* completes in its own step with no receiver: the status is appended when
\* there is room, and dropped with the channel unchanged when it is full.
C14_PublishNeverBlocks ==
    [][/\ Len(statusChange') <= ChanCap
       /\ last'.pub # ""
          => statusChange' = IF Len(statusChange) < ChanCap
                             THEN Append(statusChange, last'.pub)
                             ELSE statusChange]_vars

C14_Witness ==
    /\ last.pub = "started" /\ running
    /\ Len(statusChange) = ChanCap
    /\ statusChange[Len(statusChange)] # "started"

\* C15: after a transition that broadcast a status, the newest status on the
\* channel (the one a subscriber draining the channel ends with) is the status
\* of that transition.
C15_LatestWins ==
    (last.pub # "")
    => (statusChange # <<>> /\ statusChange[Len(statusChange)] = last.pub)

\* C16: with two streams open, a status that one of them receives and sends
\* is still there for the other to receive.
C16_FanOut ==
    [][\A j \in Streams :
          (/\ last'.op = "StreamStatus" /\ last'.code = "sent"
           /\ stream[j].pc = "open" /\ stream'[j] = stream[j])
          => (statusChange' # <<>> /\ Head(statusChange') = Head(statusChange))]_vars

\* C18: a stream handler ending because its client is gone (Send fails) takes
\* no status away from a stream that stays open.
C18_CancellationIsolated ==
    [][(/\ last'.op = "StreamStatus" /\ last'.code = "sendError"
        /\ \E j \in Streams : stream[j].pc = "open" /\ stream'[j].pc = "open")
       => statusChange' = statusChange]_vars

\* C17: once the channel is closed, a step that broadcasts a status leaves the
\* channel as it is and does not fault; and a stream handler that finds the
\* channel closed and empty ends.
C17_ClosedBusIsTerminal ==
    [][/\ (closed /\ last'.pub # "") => (statusChange' = statusChange /\ ~crashed')
       /\ (last'.op = "StreamStatus" /\ last'.code = "closed")
          => \A i \in Streams : stream'[i].pc = "idle"]_vars

C20_ExitTerminates == (\E e \in Exits : exit[e].pc # "idle") ~> Terminated

C20_Witness ==
    /\ main = "exited" /\ ~crashed
    /\ last.op = "Exit" /\ last.code = "os.Exit"
    /\ \E e \in Exits : exit[e].err = "Internal"

\* C11: a stopSingBox of the helper that has sent SIGTERM and whose process
\* went within the grace period returns nil and has cleared the handle, as
\* does one whose timeout passed with the process still alive.
C11_GraceStopCompletes ==
    [][(grace /\ ~grace' /\ (last'.arg = "done" \/ cmd[singBoxProcess] = "alive"))
       => (last'.code = "OK" /\ singBoxProcess' = Nil)]_vars

\* C21: of an Exit call and a termination signal only one runs the termination
\* sequence: no Exit handler has stopped the process and scheduled os.Exit
\* while the signal path has run its own stop and goes on to close and return.
C21_SingleTermination ==
    ~(/\ main \in {"cleanup", "closed", "draining"}
      /\ \E e \in Exits : exit[e].pc = "sleeping")

\* C22: when the supervisor process has ended (os.Exit, or main returning) no
\* managed process is alive.
C22_NoOrphan == main = "exited" => Alive = {}

\* C23: the running flag that an Exit handler read is still the flag when the
\* handler acts on it: the read and the stopSingBox it leads to are under one
\* hold of the lock.
C23_LockDiscipline == \A e \in Exits : exit[e].pc = "stopping" => running

\* C24: statuses are placed on the channel in the order of their transitions:
\* when the stop that an Exit call performs broadcasts `stopped`, the `exited`
\* of that call, the status of the later transition, is not ahead of it on the
\* channel.
C24_CausalEventOrder ==
    [][(last'.op = "Exit" /\ last'.pub = "stopped")
       => \A k \in 1..Len(statusChange) : statusChange[k] # "exited"]_vars

\* C25: a Start or Stop that returns a failure broadcasts no status and leaves
\* the channel as it was.
C25_FailedTransitionsInvisible ==
    [][(last'.op \in {"Start", "Stop"} /\ last'.code # "OK")
       => (last'.pub = "" /\ statusChange' = statusChange)]_vars

\* C26: when Warp-Plus is monitored and is gone while the managed process is
\* alive, the helper eventually is Stopped, holding no process handle (unless
\* Warp-Plus has come back before the poll, or the helper has ended).
C26_StopManagedPolicy ==
    (/\ monitor["wp"] /\ ~dep["wp"]
     /\ singBoxProcess # Nil /\ cmd[singBoxProcess] = "alive")
    ~> (singBoxProcess = Nil \/ dep["wp"] \/ Terminated)

\* C27: since a dependency last disappeared, at most one watcher callback has
\* been invoked for it.
C27_PolicyFiresOnce == \A d \in Deps : fired[d] <= 1

\* C28: a watcher leaves its polling only at a poll that finds the process
\* gone, and then for its callback; a poll that finds the process leaves the
\* watcher polling and one that finds it gone invokes the callback; and a
\* watcher whose callback was invoked never polls again.
C28_OneShotWatcher ==
    [][\A d \in Deps, k \in Watchers :
          /\ (watch[d][k] = "polling" /\ watch'[d][k] # "polling")
             => (~dep[d] /\ watch'[d][k] = "calling"
                 /\ last'.op = "monitorProcess" /\ last'.code = "callback")
          /\ (last'.op = "monitorProcess" /\ last'.arg = d /\ dep[d])
             => (watch' = watch /\ fired' = fired)
          /\ (last'.op = "monitorProcess" /\ last'.arg = d /\ ~dep[d])
             => \E j \in Watchers : watch[d][j] = "polling" /\ watch'[d][j] = "calling"
          /\ watch[d][k] \in {"calling", "grace", "exiting"}
             => watch'[d][k] # "polling"]_vars

C28_Witness ==
    /\ \E k \in Watchers : watch["wp"][k] = "none"
    /\ fired["wp"] = 1 /\ ~dep["wp"]
    /\ last.op = "stop" /\ last.arg = "done" /\ last.code = "OK"
    /\ \A k \in Watchers : watch["wp"][k] # "polling"

C30_FilePolledCommands == \A m \in Mods : delivered[m] <= 1

\* C31: a command that is none of start, stop and exit is ignored: the step
\* of the command loop that takes it leaves the handle, every process, the
\* pending stop and the watchers as they were, ends nothing, and leaves the
\* loop ready to receive the next command.
C31_UnknownCommandIgnored ==
    [][(/\ loop.pc = "run" /\ loop.command \notin {"start", "stop", "exit"}
        /\ loop' # loop)
       => (/\ singBoxProcess' = singBoxProcess /\ cmd' = cmd /\ grace' = grace
           /\ watch' = watch /\ crashed' = crashed /\ main' = main
           /\ loop'.pc = "recv")]_vars

C31_Witness ==
    /\ last.op = "command" /\ last.arg = "bogus" /\ last.code = "unknown"
    /\ loop.pc = "recv"
    /\ singBoxProcess # Nil /\ cmd[singBoxProcess] = "alive"
    /\ ~crashed /\ main # "exited"

\* C32: a policy Stop applied while the managed process is not running (the
\* handle is nil, or its process was never started, or has ended and been
\* waited for) does not crash the helper and changes neither the handle nor
\* any process; and with both companions gone and a callback of each pending,
\* the helper ends whichever callback goes first.
C32_PolicyIdempotent ==
    /\ [][\A d \in Deps, k \in Watchers :
             (/\ watch[d][k] = "calling" /\ watch'[d][k] # "calling"
              /\ (singBoxProcess = Nil \/ cmd[singBoxProcess] \in {"failed", "reaped"}))
             => (/\ ~crashed' /\ ~grace'
                 /\ singBoxProcess' = singBoxProcess /\ cmd' = cmd)]_vars
    /\ (/\ \E k \in Watchers : watch["wp"][k] = "calling"
        /\ \E k \in Watchers : watch["ob"][k] = "calling")
       ~> (main = "exited" /\ ~crashed)

\* C33: once the termination signal has arrived, the shutdown path goes
\* through its steps whatever its stopSingBox returns and whether or not a
\* status stream is open, and the supervisor process ends; and main returns
\* only with the channel closed and every handler returned.
C33_SignalShutdownCompletes ==
    /\ (main # "serving") ~> Terminated
    /\ [][(main' = "exited" /\ main # "exited")
          => (closed /\ \A i \in Streams : stream[i].pc = "idle")]_vars

C33_Witness ==
    /\ main = "exited" /\ ~crashed /\ closed
    /\ last.op = "shutdown" /\ last.code = "returned"
    /\ running /\ sbProcess # Nil /\ cmd[sbProcess] = "reaped"
    /\ \A i \in Streams : stream[i].pc = "idle"

\* C34: a stream handler whose client is gone and that finds the supervisor
\* Running with its process alive kills the process, leaves Running and
\* broadcasts `stopped` before it returns; and a handler stops the process on
\* disconnection only when no other stream is open.
C34_StreamDisconnectionPolicy ==
    [][\A i \in Streams :
          /\ (/\ stream[i].pc = "stopping" /\ stream'[i].pc = "idle"
              /\ running /\ sbProcess # Nil /\ cmd[sbProcess] = "alive")
             => (/\ last'.pub = "stopped" /\ ~running'
                 /\ cmd'[sbProcess] # "alive")
          /\ (/\ stream[i].pc = "stopping" /\ stream'[i].pc = "idle"
              /\ last'.pub = "stopped")
             => \A j \in Streams \ {i} : stream[j].pc # "open"]_vars

\* C35: a watcher that is between polls is never the holder of m.mu and its
\* poll does not wait for the lock: it can poll while a stopSingBox holds the
\* lock in its select; the poll itself leaves the lock as it is; and a watcher
\* comes to hold the lock only from its callback.
C35_WatcherPollsUnlocked ==
    /\ [](\A d \in Deps, k \in Watchers :
             (Up /\ watch[d][k] = "polling") => ENABLED watchPoll(d, k))
    /\ [][\A d \in Deps, k \in Watchers :
             /\ (last'.op = "monitorProcess" /\ last'.arg = d) => grace' = grace
             /\ (watch'[d][k] = "grace" /\ watch[d][k] # "grace")
                => (watch[d][k] = "calling" /\ ~grace)]_vars

C35_Witness ==
    /\ grace /\ singBoxProcess # Nil
    /\ last.op = "monitorProcess" /\ last.code = "running"
    /\ \E d \in Deps, k \in Watchers : watch[d][k] = "polling"

\* C36: between the locked bodies of Start, Stop, Exit and the exit-waiter,
\* the running flag is true exactly when the process handle is non-nil.
C36_FlagHandleConsistent == running <=> (sbProcess # Nil)

\* C37: no step of Start, Stop or the exit-waiter calls Wait or Kill through
\* a nil handle or through the handle of a process that was never started:
\* none of them ends in a nil dereference.
C37_NoAbsentHandle == last.code # "panic" /\ ~crashed

\* C38: `started` and the not-running statuses (`stopped`, `terminated`)
\* alternate in the broadcasts of the supervisor, `started` first.  The
\* running flag changes only in a step that broadcasts, to true with `started`
\* and to false with the others, so it records the kind of the latest
\* broadcast: `started` is broadcast only with the flag false, `stopped` and
\* `terminated` only with the flag true.
C38_EventAlternation ==
    [][/\ (running' # running) => last'.pub # ""
       /\ (last'.pub = "started") => (~running /\ running')
       /\ (last'.pub \in {"stopped", "terminated"}) => (running /\ ~running')]_vars

\* The callers that hold m.mu across steps, in the select of stopSingBox.
Holders ==
    Cardinality({x \in Deps \X Watchers : watch[x[1]][x[2]] = "grace"})
    + (IF loop.pc = "grace" THEN 1 ELSE 0)

\* C39: the helper never blocks for good.  m.mu is held across steps by
\* exactly one caller while a stopSingBox is in its select and by nobody
\* otherwise, and that caller can always go on; with the lock free every
\* callback and every command waiting for it can take it; and a command that
\* watchCommandFile is handing over is received by the command loop, unless
\* the helper has ended.
C39_DeadlockFreedom ==
    /\ [](IF grace THEN Holders = 1 ELSE Holders = 0)
    /\ []((Up /\ grace) => ENABLED (graceDone \/ graceTimeout))
    /\ []((Up /\ ~grace)
          => /\ \A d \in Deps, k \in Watchers :
                   watch[d][k] = "calling" => ENABLED watchCall(d, k)
             /\ loop.pc = "run"
                => ENABLED (loopStart \/ loopStop \/ loopExit \/ loopUnknown))
    /\ (fw.pc = "send") ~> (fw.pc # "send" \/ Terminated)

C39_Witness ==
    /\ last.op = "watchCommandFile" /\ last.code = "delivered"
    /\ loop.pc = "run" /\ loop.command = "stop"
    /\ grace /\ \E k \in Watchers : watch["wp"][k] = "grace"
    /\ ~crashed /\ main # "exited"

====
